---------------------------- MODULE Spec2Model ----------------------------
(***************************************************************************)
(* A state-machine model of Blockly.WorkspaceSvg (core/workspace_svg.js):  *)
(* the workspace lifecycle (createDom / dispose), the delete-area index    *)
(* (recordDeleteAreas / isDeleteArea), block pasting (paste), rendering     *)
(* (render), the trace mode (traceOn / highlightBlock) and the sounds       *)
(* (loadAudio_ / preloadAudio_ / playAudio).                               *)
(*                                                                         *)
(* A JavaScript reference that is null or undefined is the empty tuple     *)
(* NULL; a live object o is the one-element tuple <<o>>.  DOM handles and  *)
(* collaborators without state of their own are strings, "null" when       *)
(* absent.                                                                 *)
(***************************************************************************)
EXTENDS Integers, Sequences, FiniteSets, TLC

VARIABLES
    options,            \* options record given to the constructor
    RTL,                \* this.RTL, the text direction of the workspace
    rendered,           \* this.rendered
    svgGroup_,          \* this.svgGroup_
    svgBlockCanvas_,    \* this.svgBlockCanvas_
    svgBubbleCanvas_,   \* this.svgBubbleCanvas_
    trashcan,           \* this.trashcan: NULL or <<[open |-> BOOLEAN]>>
    flyout_,            \* this.flyout_
    toolbox_,           \* this.toolbox_
    deleteAreaTrash_,   \* this.deleteAreaTrash_: NULL or <<rect>>
    deleteAreaToolbox_, \* this.deleteAreaToolbox_: NULL or <<rect>>
    cursor,             \* the cursor last set through Blockly.Css.setCursor
    disposed,           \* how often each sub-component's dispose() has run
    changeEvents,       \* 'blocklyWorkspaceChange' events fired
    svgOrigin,          \* screen position of the SVG origin (mouseToSvg)
    domCreated,         \* createDom has run
    disposeCalls,       \* calls of dispose() so far
    blocks,             \* the blocks of the workspace, in creation order
    selected,           \* Blockly.selected: 0 or the index of a block
    SNAP_RADIUS,        \* Blockly.SNAP_RADIUS
    pc,                 \* position inside paste(): "idle", "scan"
    paste,              \* the activation record of the last paste()
    pastes,             \* accepted paste() calls so far
    ret,                \* what the last call did and returned
    renderCalls,        \* the blocks render() called block.render() on
    traceOn_,           \* this.traceOn_
    traceWrapper_,      \* this.traceWrapper_: NULL or the bound listener
    timers,             \* pending setTimeout callbacks of highlightBlock
    dragMode_,          \* Blockly.dragMode_: 0, 1 or 2
    callerTrace,        \* the caller's last traceOn: "none", "on", "off"
    userSelected,       \* the user selected since the caller's traceOn(true)
    SOUNDS_,            \* per workspace: this.SOUNDS_, in insertion order
    parentWorkspace,    \* per workspace: options.parentWorkspace, 0 if none
    playable,           \* extensions audioTest.canPlayType accepts
    audioSupported,     \* window['Audio'] exists
    userAgent,          \* the platform goog.userAgent reports
    loads,              \* Audio objects created by loadAudio_ so far
    play                \* the activation record of the last playAudio()

vars == <<options, RTL, rendered, svgGroup_, svgBlockCanvas_, svgBubbleCanvas_,
          trashcan, flyout_, toolbox_, deleteAreaTrash_, deleteAreaToolbox_,
          cursor, disposed, changeEvents, svgOrigin, domCreated, disposeCalls,
          blocks, selected, SNAP_RADIUS, pc, paste, pastes, ret, renderCalls,
          traceOn_, traceWrapper_, timers, dragMode_, callerTrace,
          userSelected, SOUNDS_, parentWorkspace, playable, audioSupported,
          userAgent, loads, play>>

surfaceVars == <<options, rendered, svgGroup_, svgBlockCanvas_,
                 svgBubbleCanvas_, trashcan, flyout_, toolbox_,
                 deleteAreaTrash_, deleteAreaToolbox_, cursor, disposed,
                 changeEvents, svgOrigin, domCreated, disposeCalls>>

pasteVars == <<blocks, selected, pc, paste, pastes>>

traceVars == <<traceOn_, traceWrapper_, timers, dragMode_, callerTrace,
               userSelected>>

audioVars == <<SOUNDS_, parentWorkspace, playable, audioSupported, userAgent,
               loads, play>>

extVars == <<renderCalls, traceVars, audioVars>>

NULL == <<>>

Some(v) == <<v>>

(***************************************************************************)
(* Bounds of the model.                                                    *)
(***************************************************************************)
MaxPt == 4          \* pointer events have client coordinates 0..MaxPt

MaxDisposeCalls == 2 \* dispose() is called at most this often

MaxTop == 2         \* blocks added through addTopBlock

MaxSnap == 2        \* SNAP_RADIUS ranges over 1..MaxSnap

MaxDesc == 1        \* descendants of a pasted <block> element

MaxPastes == 1      \* accepted pastes in one run

MaxTimers == 2      \* pending setTimeout callbacks of highlightBlock

MaxChain == 3       \* workspaces in a chain of parentWorkspace links

MaxLoads == 2       \* Audio objects loadAudio_ creates in one run

(***************************************************************************)
(* Rectangles and points.                                                  *)
(***************************************************************************)
Rect(l, t, w, h) == [left |-> l, top |-> t, width |-> w, height |-> h]

\* goog.math.Rect.prototype.contains for a coordinate: the closed rectangle.
Contains(rect, xy) ==
    /\ xy[1] >= rect.left
    /\ xy[1] <= rect.left + rect.width
    /\ xy[2] >= rect.top
    /\ xy[2] <= rect.top + rect.height

\* Rectangles Blockly.Trashcan.prototype.getRect may report.
TrashRects == {Rect(2, 2, 1, 1), Rect(0, 3, 1, 1)}

\* Rectangles the flyout's or the toolbox's getRect may report.
ToolboxRects == {Rect(0, 0, 1, 4), Rect(0, 0, 0, 1)}

\* Mouse events: their client coordinates.
Events == (0..MaxPt) \X (0..MaxPt)

\* Blockly.mouseToSvg: client coordinates to SVG coordinates, through the
\* inverse of the SVG's screen transform (a translation by its origin).
MouseToSvg(e) == <<e[1] - svgOrigin[1], e[2] - svgOrigin[2]>>

NoRet == [op |-> "none", threw |-> FALSE, result |-> FALSE, xy |-> <<0, 0>>]

Ret(op, threw, result, xy) ==
    [op |-> op, threw |-> threw, result |-> result, xy |-> xy]

\* parseInt's NaN; a number n is Some(n).
NaN == NULL

\* The activation record of paste(): the parsed attributes (recX, recY), the
\* candidate before the first scan (init), the candidate (blockX, blockY),
\* the list allBlocks and the loop index into it (idx, from 1), the flag
\* collide, the number of
\* shifts made, the index of the pasted root block and the number of
\* descendant <block> elements of the pasted element.
NoPaste ==
    [phase |-> "none", nDesc |-> 0, root |-> 0, recX |-> NaN, recY |-> NaN,
     init |-> <<0, 0>>, blockX |-> 0, blockY |-> 0, allBlocks |-> <<>>,
     idx |-> 0, collide |-> FALSE, shifts |-> 0]



(***************************************************************************)
(* The workspace surface: createDom, dispose, recordDeleteAreas and        *)
(* isDeleteArea.                                                           *)
(***************************************************************************)
OptionRecords ==
    [hasTrashcan : BOOLEAN, hasCategories : BOOLEAN, languageTree : BOOLEAN]

\* Blockly.Trashcan as created by addTrashcan_: the lid starts closed.
NewTrashcan == Some([open |-> FALSE])

\* fireChangeEvent: observable only while rendering and the canvas exists.
FireChangeEvent(isRendered, canvas) ==
    IF isRendered /\ canvas # "null" THEN changeEvents + 1 ELSE changeEvents

\* The fields of a workspace the constructor leaves: nothing built yet.
InitSurface ==
    /\ options \in OptionRecords
    /\ rendered = TRUE
    /\ svgGroup_ = "null"
    /\ svgBlockCanvas_ = "null"
    /\ svgBubbleCanvas_ = "null"
    /\ trashcan = NULL
    /\ flyout_ = "null"
    /\ toolbox_ = "null"
    /\ deleteAreaTrash_ = NULL
    /\ deleteAreaToolbox_ = NULL
    /\ cursor = "none"
    /\ disposed = [trashcan |-> 0, flyout |-> 0, toolbox |-> 0]
    /\ changeEvents = 0
    /\ svgOrigin \in {<<0, 0>>, <<1, 0>>}
    /\ domCreated = FALSE
    /\ disposeCalls = 0

\* No playAudio in progress or to report.
NoPlay == [phase |-> "none"]

\* The trace mode of a new workspace: off, nothing bound or scheduled.
InitTrace ==
    /\ traceOn_ = FALSE
    /\ traceWrapper_ = NULL
    /\ timers = 0
    /\ dragMode_ = 0
    /\ callerTrace = "none"
    /\ userSelected = FALSE

\* One workspace without parent, this.SOUNDS_ = Object.create(null).
InitNoSounds ==
    /\ SOUNDS_ = <<(<<>>)>>
    /\ parentWorkspace = <<0>>
    /\ playable = {}
    /\ audioSupported = TRUE
    /\ userAgent = "desktop"
    /\ loads = 0
    /\ play = NoPlay

InitBlocks ==
    /\ blocks = <<>>
    /\ selected = 0
    /\ pc = "idle"
    /\ paste = NoPaste
    /\ pastes = 0
    /\ ret = NoRet

Init ==
    /\ InitSurface
    /\ InitBlocks
    /\ renderCalls = <<>>
    /\ InitTrace
    /\ InitNoSounds
    /\ RTL = FALSE
    /\ SNAP_RADIUS = 1

\* createDom without the else: the flyout is built whenever there is a
\* languageTree, next to the toolbox.
CreateDomBothPalettes ==
    /\ pc = "idle"
    /\ ~domCreated
    /\ domCreated' = TRUE
    /\ svgGroup_' = "g"
    /\ svgBlockCanvas_' = "g"
    /\ svgBubbleCanvas_' = "g"
    /\ trashcan' = IF options.hasTrashcan THEN NewTrashcan ELSE trashcan
    /\ toolbox_' = IF options.hasCategories THEN "toolbox" ELSE toolbox_
    /\ flyout_' = IF options.languageTree THEN "flyout" ELSE flyout_
    /\ changeEvents' = FireChangeEvent(rendered, "g")
    /\ ret' = Ret("createDom", FALSE, FALSE, <<0, 0>>)
    /\ UNCHANGED <<options, RTL, rendered, deleteAreaTrash_,
                   deleteAreaToolbox_, cursor, disposed, svgOrigin,
                   disposeCalls, blocks, selected, SNAP_RADIUS, pc, paste,
                   pastes, extVars>>

\* createDom builds the surface once per workspace (Blockly.inject and the
\* mutator dialog call it right after the constructor).
CreateDom ==
    /\ pc = "idle"
    /\ ~domCreated
    /\ domCreated' = TRUE
    /\ svgGroup_' = "g"
    /\ svgBlockCanvas_' = "g"
    /\ svgBubbleCanvas_' = "g"
    /\ trashcan' = IF options.hasTrashcan THEN NewTrashcan ELSE trashcan
    /\ toolbox_' = IF options.hasCategories THEN "toolbox" ELSE toolbox_
    /\ flyout_' = IF ~options.hasCategories /\ options.languageTree
                  THEN "flyout" ELSE flyout_
    /\ changeEvents' = FireChangeEvent(rendered, "g")
    /\ ret' = Ret("createDom", FALSE, FALSE, <<0, 0>>)
    /\ UNCHANGED <<options, RTL, rendered, deleteAreaTrash_,
                   deleteAreaToolbox_, cursor, disposed, svgOrigin,
                   disposeCalls, blocks, selected, SNAP_RADIUS, pc, paste,
                   pastes, extVars>>

\* The sub-components dispose() tears down: the flyout and the trashcan.
DisposeSubComponents ==
    /\ flyout_' = "null"
    /\ trashcan' = NULL
    /\ disposed' = [disposed EXCEPT
                      !.flyout = IF flyout_ # "null" THEN @ + 1 ELSE @,
                      !.trashcan = IF trashcan # NULL THEN @ + 1 ELSE @]

\* dispose: the superclass's dispose clears the blocks (and with them the
\* selection); the toolbox is neither disposed nor unlinked.
Dispose ==
    /\ pc = "idle"
    /\ disposeCalls < MaxDisposeCalls
    /\ disposeCalls' = disposeCalls + 1
    /\ rendered' = FALSE
    /\ blocks' = <<>>
    /\ selected' = 0
    /\ svgGroup_' = "null"
    /\ svgBlockCanvas_' = "null"
    /\ svgBubbleCanvas_' = "null"
    /\ DisposeSubComponents
    /\ ret' = Ret("dispose", FALSE, FALSE, <<0, 0>>)
    /\ UNCHANGED <<options, RTL, toolbox_, deleteAreaTrash_,
                   deleteAreaToolbox_, cursor, changeEvents, svgOrigin,
                   domCreated, SNAP_RADIUS, pc, paste, pastes, extVars>>

RecordDeleteAreas ==
    /\ pc = "idle"
    /\ \E tr \in TrashRects, fr \in ToolboxRects :
         /\ deleteAreaTrash_' = IF trashcan # NULL THEN Some(tr) ELSE NULL
         /\ deleteAreaToolbox_' =
              IF flyout_ # "null" THEN Some(fr)
              ELSE IF toolbox_ # "null" THEN Some(fr)
              ELSE NULL
    /\ ret' = Ret("recordDeleteAreas", FALSE, FALSE, <<0, 0>>)
    /\ UNCHANGED <<options, RTL, rendered, svgGroup_, svgBlockCanvas_,
                   svgBubbleCanvas_, trashcan, flyout_, toolbox_, cursor,
                   disposed, changeEvents, svgOrigin, domCreated,
                   disposeCalls, blocks, selected, SNAP_RADIUS, pc, paste,
                   pastes, extVars>>

InTrash(xy) == deleteAreaTrash_ # NULL /\ Contains(deleteAreaTrash_[1], xy)

InToolbox(xy) ==
    deleteAreaToolbox_ # NULL /\ Contains(deleteAreaToolbox_[1], xy)

\* The body of isDeleteArea at the surface point xy.  With a recorded trash
\* rectangle both branches call this.trashcan.setOpen_: on a null trashcan
\* that is a TypeError, thrown before any side effect.
HitTest(xy) ==
    IF deleteAreaTrash_ # NULL /\ trashcan = NULL
    THEN /\ ret' = Ret("isDeleteArea", TRUE, FALSE, xy)
         /\ UNCHANGED <<trashcan, cursor>>
    ELSE IF InTrash(xy)
    THEN /\ trashcan' = Some([open |-> TRUE])
         /\ cursor' = "DELETE"
         /\ ret' = Ret("isDeleteArea", FALSE, TRUE, xy)
    ELSE /\ trashcan' = IF deleteAreaTrash_ # NULL
                        THEN Some([open |-> FALSE]) ELSE trashcan
         /\ IF InToolbox(xy)
            THEN /\ cursor' = "DELETE"
                 /\ ret' = Ret("isDeleteArea", FALSE, TRUE, xy)
            ELSE /\ cursor' = "CLOSED"
                 /\ ret' = Ret("isDeleteArea", FALSE, FALSE, xy)

IsDeleteArea ==
    /\ pc = "idle"
    /\ \E e \in Events : HitTest(MouseToSvg(e))
    /\ UNCHANGED <<options, RTL, rendered, svgGroup_, svgBlockCanvas_,
                   svgBubbleCanvas_, flyout_, toolbox_, deleteAreaTrash_,
                   deleteAreaToolbox_, disposed, changeEvents, svgOrigin,
                   domCreated, disposeCalls, blocks, selected, SNAP_RADIUS,
                   pc, paste, pastes, extVars>>

Next ==
    \/ CreateDom
    \/ Dispose
    \/ RecordDeleteAreas
    \/ IsDeleteArea

Spec == Init /\ [][Next]_vars

(***************************************************************************)
(* Claims about the delete-area hit test and the lifecycle.                *)
(***************************************************************************)
HitTested == ret.op = "isDeleteArea"

TrashOpen == trashcan # NULL /\ trashcan[1].open

TrashClosed == trashcan # NULL /\ ~trashcan[1].open

\* What createDom built for this workspace.
Built ==
    [trashcan |-> domCreated /\ options.hasTrashcan,
     toolbox  |-> domCreated /\ options.hasCategories,
     flyout   |-> domCreated /\ ~options.hasCategories
                             /\ options.languageTree]

\* C1: once a trash rectangle is recorded, isDeleteArea at a point inside it
\* returns true and leaves the trashcan open, and at a point outside every
\* recorded zone it returns false and leaves the trashcan closed.
C1_HitTestTrash ==
    (HitTested /\ deleteAreaTrash_ # NULL) =>
        /\ InTrash(ret.xy) => (~ret.threw /\ ret.result /\ TrashOpen)
        /\ (~InTrash(ret.xy) /\ ~InToolbox(ret.xy)) =>
              (~ret.threw /\ ~ret.result /\ TrashClosed)

\* C1 restricted to the states in which the trashcan has not been disposed:
\* there the hit test behaves as C1 says.
HitTestTrashWhileLive ==
    (HitTested /\ deleteAreaTrash_ # NULL /\ trashcan # NULL) =>
        /\ InTrash(ret.xy) => (~ret.threw /\ ret.result /\ TrashOpen)
        /\ (~InTrash(ret.xy) /\ ~InToolbox(ret.xy)) =>
              (~ret.threw /\ ~ret.result /\ TrashClosed)

\* C2: the trash zone is tested before the palette zone: at a point outside
\* the recorded trash rectangle and inside the recorded palette rectangle
\* the trashcan is closed and the call returns true; the neutral cursor is
\* set only by a call that returns false.
C2_TrashBeforePalette ==
    HitTested =>
        /\ (deleteAreaTrash_ # NULL /\ ~InTrash(ret.xy) /\ InToolbox(ret.xy))
              => (~ret.threw /\ ret.result /\ TrashClosed)
        /\ (~ret.threw /\ ret.result) => cursor = "DELETE"
        /\ (~ret.threw /\ ~ret.result) => cursor = "CLOSED"

\* C2 restricted to the states in which the trashcan has not been disposed.
TrashBeforePaletteWhileLive ==
    (HitTested /\ (deleteAreaTrash_ # NULL => trashcan # NULL)) =>
        /\ (deleteAreaTrash_ # NULL /\ ~InTrash(ret.xy) /\ InToolbox(ret.xy))
              => (~ret.threw /\ ret.result /\ TrashClosed)
        /\ (~ret.threw /\ ret.result) => cursor = "DELETE"
        /\ (~ret.threw /\ ~ret.result) => cursor = "CLOSED"

\* The state dispose() is said to leave: rendering off and every reference
\* to the surface, its layers, the palette and the trashcan null.
NullState ==
    /\ rendered = FALSE
    /\ svgGroup_ = "null"
    /\ svgBlockCanvas_ = "null"
    /\ svgBubbleCanvas_ = "null"
    /\ flyout_ = "null"
    /\ toolbox_ = "null"
    /\ trashcan = NULL

\* C9: a second dispose() raises no error and leaves the state of the first:
\* rendering off, the surface, both layers, the palette and the trashcan
\* null, and no sub-component disposed more than once.
C9_DisposeIdempotent ==
    (ret.op = "dispose" /\ disposeCalls >= 2) =>
        /\ ~ret.threw
        /\ NullState
        /\ \A c \in DOMAIN disposed : disposed[c] <= 1

\* The part of C9 the code keeps: a dispose() right after a dispose()
\* changes no field of the workspace and disposes nothing again.
SecondDisposeChangesNothing ==
    [][(ret.op = "dispose" /\ disposeCalls' = disposeCalls + 1) =>
          UNCHANGED <<rendered, svgGroup_, svgBlockCanvas_, svgBubbleCanvas_,
                      trashcan, flyout_, toolbox_, disposed, blocks,
                      deleteAreaTrash_, deleteAreaToolbox_>>]_vars

\* C10: after dispose() every sub-component createDom built (trashcan,
\* toolbox or flyout) has been disposed and its reference is null.
C10_SubComponentsReleased ==
    ret.op = "dispose" =>
        /\ trashcan = NULL
        /\ flyout_ = "null"
        /\ toolbox_ = "null"
        /\ \A c \in DOMAIN disposed : Built[c] => disposed[c] = 1

\* The part of C10 the code keeps: the trashcan and the flyout are released.
TrashcanAndFlyoutReleased ==
    ret.op = "dispose" =>
        /\ trashcan = NULL
        /\ flyout_ = "null"
        /\ Built.trashcan => disposed.trashcan = 1
        /\ Built.flyout => disposed.flyout = 1

\* C11 as stated: createDom builds exactly one of the toolbox and the
\* flyout, whatever the options, and afterwards the two are never both there
\* and neither takes the other's place.
C11_ExactlyOnePalette ==
    /\ ret.op = "createDom" => ((toolbox_ # "null") # (flyout_ # "null"))
    /\ ~(toolbox_ # "null" /\ flyout_ # "null")

\* C11, amended: createDom builds the toolbox exactly when
\* options.hasCategories is set, otherwise the flyout exactly when there is a
\* languageTree, and no palette when both are absent; the toolbox and the
\* flyout are never both there, and no operation puts one where the other was.
C11_AtMostOnePalette ==
    /\ [](/\ ~(toolbox_ # "null" /\ flyout_ # "null")
          /\ ret.op = "createDom" =>
               /\ (toolbox_ # "null") = options.hasCategories
               /\ (flyout_ # "null") =
                    (~options.hasCategories /\ options.languageTree))
    /\ [][/\ toolbox_ # "null" => flyout_' = "null"
          /\ flyout_ # "null" => toolbox_' = "null"
          /\ options' = options]_vars

\* A workspace built with a flyout has recorded its delete areas and
\* answered a hit test: the flyout is still the palette.
C11_Witness ==
    /\ ret.op = "isDeleteArea"
    /\ flyout_ = "flyout"
    /\ toolbox_ = "null"
    /\ deleteAreaToolbox_ # NULL

\* createDom has returned on a workspace without categories and without a
\* languageTree: no palette was built.
NoPaletteBuilt ==
    /\ ret.op = "createDom"
    /\ ~options.hasCategories /\ ~options.languageTree
    /\ toolbox_ = "null" /\ flyout_ = "null"

\* C20: a recorded trash rectangle implies a live trashcan, so that
\* isDeleteArea never opens or closes a trashcan that is not there.
C20_TrashRectImpliesTrashcan ==
    /\ deleteAreaTrash_ # NULL => trashcan # NULL
    /\ HitTested => ~ret.threw

\* The part of C20 the code keeps: until dispose() is called, a recorded
\* trash rectangle has its trashcan and isDeleteArea does not throw.
TrashRectHasTrashcanUntilDispose ==
    disposeCalls = 0 =>
        /\ deleteAreaTrash_ # NULL => trashcan # NULL
        /\ HitTested => ~ret.threw

(***************************************************************************)
(* Blocks and pasting.                                                     *)
(***************************************************************************)
\* options.maxBlocks, the capacity of the workspace.
maxBlocks == 3

\* Where a block sits right after Blockly.Xml.domToBlock created it.
DefaultXY == <<0, 0>>

\* Positions of the blocks the user has put on the workspace.
TopPositions == {<<0, 0>>, <<1, 2>>, <<-1, -2>>, <<-1, 2>>}

\* Offsets of a child block from the root of its subtree.
KidOffsets == {<<0, 2>>}

\* Values of the x and y attributes of a <block> element: absent (null), or
\* a string, given as its characters.
AttrXValues == {NULL, <<"a">>, <<"0">>, <<"1", ".", "5">>, <<"-", "1">>}

AttrYValues == {NULL, <<"0">>, <<"2", "p", "x">>, <<"-", "2">>}

\* The descendants of a <block> element: each with its offset from the root
\* and its parent (0 the root, j the j-th descendant).
KidSeqs ==
    UNION {{k \in [1..n -> [off : KidOffsets, up : 0..MaxDesc]] :
              \A i \in 1..n : k[i].up < i} : n \in 0..MaxDesc}

XmlBlocks == [x : AttrXValues, y : AttrYValues, kids : KidSeqs]

Digits == <<"0", "1", "2", "3", "4", "5", "6", "7", "8", "9">>

IsDigit(c) == \E d \in 1..10 : Digits[d] = c

DigitValue(c) == (CHOOSE d \in 1..10 : Digits[d] = c) - 1

RECURSIVE DigitsValue(_, _, _)
\* The value of the longest run of digits of s from position i on.
DigitsValue(s, i, acc) ==
    IF i > Len(s) \/ ~IsDigit(s[i]) THEN acc
    ELSE DigitsValue(s, i + 1, acc * 10 + DigitValue(s[i]))

\* parseInt(s, 10): an optional sign, then the longest run of digits; NaN
\* when there is no digit (also for a null attribute).
ParseInt(s) ==
    LET signed == Len(s) >= 1 /\ s[1] \in {"-", "+"}
        start  == IF signed THEN 2 ELSE 1
        value  == DigitsValue(s, start, 0)
    IN  IF start > Len(s) \/ ~IsDigit(s[start]) THEN NaN
        ELSE IF signed /\ s[1] = "-" THEN Some(0 - value)
        ELSE Some(value)

Abs(n) == IF n < 0 THEN 0 - n ELSE n

\* Indices of the children of block i, in order.
RECURSIVE ChildrenFrom(_, _, _)
ChildrenFrom(bs, i, j) ==
    IF j > Len(bs) THEN <<>>
    ELSE (IF bs[j].parent = i THEN <<j>> ELSE <<>>)
         \o ChildrenFrom(bs, i, j + 1)

RECURSIVE Expand(_, _, _)
Expand(bs, list, k) ==
    IF k > Len(list) THEN list
    ELSE Expand(bs, list \o ChildrenFrom(bs, list[k], 1), k + 1)

\* Workspace.getAllBlocks: the top blocks, then breadth-first their children.
GetAllBlocks(bs) == Expand(bs, ChildrenFrom(bs, 0, 1), 1)

\* Workspace.remainingCapacity.
RemainingCapacity == maxBlocks - Len(GetAllBlocks(blocks))

\* xmlBlock.getElementsByTagName('block').length: the descendants.
DescendantCount(xml) == Len(xml.kids)

\* The capacity test with > for >=: one block too many gets in.
OverCapacityOffByOne(xml) == DescendantCount(xml) > RemainingCapacity

\* The test that makes paste return at once.
OverCapacity(xml) == DescendantCount(xml) >= RemainingCapacity

\* Blockly.Xml.domToBlock: the root and its descendants join the workspace,
\* the root at DefaultXY.
DomToBlock(bs, xml) ==
    LET root == Len(bs) + 1
    IN  bs \o <<[pos |-> DefaultXY, parent |-> 0]>>
           \o [i \in 1..Len(xml.kids) |->
                 [pos |-> <<DefaultXY[1] + xml.kids[i].off[1],
                            DefaultXY[2] + xml.kids[i].off[2]>>,
                  parent |-> root + xml.kids[i].up]]

\* The candidate x without the mirroring.
MirrorNever(x) == x

\* blockX = -blockX under RTL.
Mirror(x) == IF RTL THEN 0 - x ELSE x

\* The collision test with < for <=.
CollidesStrict(x, y, otherXY) ==
    Abs(x - otherXY[1]) < 1 /\ Abs(y - otherXY[2]) < 1

\* Math.abs(blockX - otherXY.x) <= 1 && Math.abs(blockY - otherXY.y) <= 1
Collides(x, y, otherXY) ==
    Abs(x - otherXY[1]) <= 1 /\ Abs(y - otherXY[2]) <= 1

\* The shift with the same step on both axes.
ShiftSquare(x, y) ==
    <<IF RTL THEN x - SNAP_RADIUS ELSE x + SNAP_RADIUS, y + SNAP_RADIUS>>

\* The candidate after a collision.
Shift(x, y) ==
    <<IF RTL THEN x - SNAP_RADIUS ELSE x + SNAP_RADIUS, y + SNAP_RADIUS * 2>>

\* The flag collide declared outside the do loop: never reset.
CollideKept(c) == c

\* var collide = false, at the top of every pass of the do loop.
CollideAtScanStart(c) == FALSE

\* block.moveBy(dx, dy) on the root at index root with n descendants: the
\* subtree moves as one.
MoveBy(bs, root, n, dx, dy) ==
    [i \in 1..Len(bs) |->
       IF i >= root /\ i <= root + n
       THEN [bs[i] EXCEPT !.pos = <<@[1] + dx, @[2] + dy>>]
       ELSE bs[i]]

\* The listener traceOn binds to 'blocklySelectChange':
\* function() {this.traceOn_ = false}.
TraceListener(on) == FALSE

\* Blockly.fireUiEvent(canvas, 'blocklySelectChange'): the listener runs if
\* one is bound; the result is the new this.traceOn_.
FireSelectChange(wrapper, on) ==
    IF wrapper # NULL THEN TraceListener(on) ELSE on

\* What a block.select() or unselect() does to the trace mode; byUser tells
\* a selection the user made from one highlightBlock made.
SelectChange(byUser) ==
    /\ traceOn_' = FireSelectChange(traceWrapper_, traceOn_)
    /\ userSelected' = (userSelected \/ byUser)
    /\ UNCHANGED <<traceWrapper_, timers, dragMode_, callerTrace>>

\* addTopBlock: a block the user created and dropped at a position.
AddTopBlock ==
    /\ pc = "idle"
    /\ Len(blocks) < MaxTop
    /\ \E p \in TopPositions :
         blocks' = Append(blocks, [pos |-> p, parent |-> 0])
    /\ paste' = NoPaste
    /\ ret' = Ret("addTopBlock", FALSE, FALSE, <<0, 0>>)
    /\ UNCHANGED <<surfaceVars, RTL, SNAP_RADIUS, selected, pc, pastes,
                   extVars>>

\* The user selects a block (block.select()).
SelectBlock ==
    /\ pc = "idle"
    /\ \E i \in 1..Len(blocks) :
         /\ selected # i
         /\ selected' = i
    /\ paste' = NoPaste
    /\ ret' = Ret("select", FALSE, FALSE, <<0, 0>>)
    /\ SelectChange(TRUE)
    /\ UNCHANGED <<surfaceVars, RTL, SNAP_RADIUS, blocks, pc, pastes,
                   renderCalls, audioVars>>

\* paste(xmlBlock) up to the do loop: the capacity test, domToBlock, the
\* parsing of the recorded position and the mirroring.  Without a parsable
\* position the block is selected where it is and paste returns.
PasteCall(xml) ==
    /\ pc = "idle"
    /\ pastes < MaxPastes
    /\ svgBlockCanvas_ # "null"
    /\ IF OverCapacity(xml)
       THEN /\ paste' = [NoPaste EXCEPT !.phase = "rejected",
                                        !.nDesc = DescendantCount(xml)]
            /\ ret' = Ret("paste", FALSE, FALSE, <<0, 0>>)
            /\ UNCHANGED <<blocks, selected, pc, pastes, traceVars>>
       ELSE LET px == ParseInt(xml.x)
                py == ParseInt(xml.y)
                root == Len(blocks) + 1
                rec == [NoPaste EXCEPT !.nDesc = DescendantCount(xml),
                                       !.root = root,
                                       !.recX = px,
                                       !.recY = py]
            IN  /\ blocks' = DomToBlock(blocks, xml)
                /\ pastes' = pastes + 1
                /\ IF px # NaN /\ py # NaN
                   THEN /\ paste' =
                             [rec EXCEPT
                                !.phase = "scan",
                                !.init = <<Mirror(px[1]), py[1]>>,
                                !.blockX = Mirror(px[1]),
                                !.blockY = py[1],
                                !.allBlocks =
                                   GetAllBlocks(DomToBlock(blocks, xml)),
                                !.idx = 1,
                                !.collide = CollideAtScanStart(FALSE)]
                        /\ pc' = "scan"
                        /\ UNCHANGED <<selected, ret, traceVars>>
                   ELSE /\ paste' = [rec EXCEPT !.phase = "done"]
                        /\ selected' = root
                        /\ ret' = Ret("paste", FALSE, TRUE, <<0, 0>>)
                        /\ SelectChange(TRUE)
                        /\ UNCHANGED pc
    /\ UNCHANGED <<surfaceVars, RTL, SNAP_RADIUS, renderCalls, audioVars>>

PasteBegin == \E xml \in XmlBlocks : PasteCall(xml)

\* One pass of the for loop: allBlocks[idx] against the candidate.
PasteScan ==
    /\ pc = "scan"
    /\ paste.idx <= Len(paste.allBlocks)
    /\ LET other == blocks[paste.allBlocks[paste.idx]]
           hit == Collides(paste.blockX, paste.blockY, other.pos)
           next == Shift(paste.blockX, paste.blockY)
       IN  paste' = [paste EXCEPT
                       !.idx = @ + 1,
                       !.blockX = IF hit THEN next[1] ELSE @,
                       !.blockY = IF hit THEN next[2] ELSE @,
                       !.shifts = IF hit THEN @ + 1 ELSE @,
                       !.collide = IF hit THEN TRUE ELSE @]
    /\ UNCHANGED <<surfaceVars, RTL, SNAP_RADIUS, blocks, selected, pc,
                   pastes, ret, extVars>>

\* while (collide): another pass of the do loop, over a fresh allBlocks.
PasteRescan ==
    /\ pc = "scan"
    /\ paste.idx > Len(paste.allBlocks)
    /\ paste.collide
    /\ paste' = [paste EXCEPT !.idx = 1,
                              !.allBlocks = GetAllBlocks(blocks),
                              !.collide = CollideAtScanStart(@)]
    /\ UNCHANGED <<surfaceVars, RTL, SNAP_RADIUS, blocks, selected, pc,
                   pastes, ret, extVars>>

\* The loop left: block.moveBy(blockX, blockY); block.select().
PasteFinish ==
    /\ pc = "scan"
    /\ paste.idx > Len(paste.allBlocks)
    /\ ~paste.collide
    /\ blocks' = MoveBy(blocks, paste.root, paste.nDesc,
                        paste.blockX, paste.blockY)
    /\ selected' = paste.root
    /\ paste' = [paste EXCEPT !.phase = "done", !.allBlocks = <<>>]
    /\ pc' = "idle"
    /\ ret' = Ret("paste", FALSE, TRUE, <<0, 0>>)
    /\ SelectChange(TRUE)
    /\ UNCHANGED <<surfaceVars, RTL, SNAP_RADIUS, pastes, renderCalls,
                   audioVars>>

\* The surface of a workspace createDom has built, without trashcan or
\* palette.
SurfaceBuilt ==
    /\ options = [hasTrashcan |-> FALSE, hasCategories |-> FALSE,
                  languageTree |-> FALSE]
    /\ rendered = TRUE
    /\ svgGroup_ = "g"
    /\ svgBlockCanvas_ = "g"
    /\ svgBubbleCanvas_ = "g"
    /\ trashcan = NULL
    /\ flyout_ = "null"
    /\ toolbox_ = "null"
    /\ deleteAreaTrash_ = NULL
    /\ deleteAreaToolbox_ = NULL
    /\ cursor = "none"
    /\ disposed = [trashcan |-> 0, flyout |-> 0, toolbox |-> 0]
    /\ changeEvents = 1
    /\ svgOrigin = <<0, 0>>
    /\ domCreated = TRUE
    /\ disposeCalls = 0

\* A workspace whose surface createDom has built, without trashcan or
\* palette, in either text direction.
PasteInit ==
    /\ SurfaceBuilt
    /\ InitBlocks
    /\ renderCalls = <<>>
    /\ InitTrace
    /\ InitNoSounds
    /\ RTL \in BOOLEAN
    /\ SNAP_RADIUS \in 1..MaxSnap

PasteNext ==
    \/ AddTopBlock
    \/ SelectBlock
    \/ PasteBegin
    \/ PasteScan
    \/ PasteRescan
    \/ PasteFinish

PasteSpec == PasteInit /\ [][PasteNext]_vars

\* paste() runs to completion: once called, the handler takes its steps.
PasteFairSpec ==
    PasteSpec /\ WF_vars(PasteScan \/ PasteRescan \/ PasteFinish)

(***************************************************************************)
(* Claims about paste.                                                     *)
(***************************************************************************)
Parsable == paste.recX # NaN /\ paste.recY # NaN

PasteDone == paste.phase = "done"

\* Two positions within 1 unit of each other on both axes.
Near(p, q) ==
    /\ p[1] - q[1] <= 1 /\ q[1] - p[1] <= 1
    /\ p[2] - q[2] <= 1 /\ q[2] - p[2] <= 1

\* The blocks that were on the workspace before the paste.
PreExisting == 1..(paste.root - 1)

\* C3: a paste with a parsable position places the pasted block more than
\* 1 unit, on at least one axis, from every block that was there before.
C3_NoClobber ==
    (PasteDone /\ Parsable) =>
        \A i \in PreExisting : ~Near(blocks[paste.root].pos, blocks[i].pos)

\* A paste that collided twice on a workspace of two blocks has returned.
C3_Witness ==
    PasteDone /\ Parsable /\ paste.root = 3 /\ paste.shifts >= 2

\* C4: a for-loop pass shifts the candidate exactly when the scanned
\* position is within 1 unit on both axes, by SNAP_RADIUS horizontally (up
\* in x left-to-right, down in x right-to-left) and 2 * SNAP_RADIUS down;
\* so the vertical displacement from the first candidate is always twice
\* the horizontal one.
C4_TwoToOne ==
    [][/\ (pc = "scan" /\ paste'.idx = paste.idx + 1) =>
            LET other == blocks[paste.allBlocks[paste.idx]].pos
                dx == paste'.blockX - paste.blockX
                dy == paste'.blockY - paste.blockY
            IN  IF Near(<<paste.blockX, paste.blockY>>, other)
                THEN /\ dx = (IF RTL THEN 0 - SNAP_RADIUS ELSE SNAP_RADIUS)
                     /\ dy = 2 * SNAP_RADIUS
                     /\ paste'.collide
                ELSE dx = 0 /\ dy = 0 /\ paste'.collide = paste.collide
       /\ (paste'.phase \in {"scan", "done"} /\ paste'.recX # NaN
             /\ paste'.recY # NaN) =>
            LET hor == paste'.blockX - paste'.init[1]
                ver == paste'.blockY - paste'.init[2]
            IN  /\ ver = 2 * (IF hor < 0 THEN 0 - hor ELSE hor)
                /\ ver = 2 * SNAP_RADIUS * paste'.shifts
                /\ RTL => hor <= 0
                /\ ~RTL => hor >= 0]_vars

\* The loop is running and has shifted the candidate twice.
C4_Witness == pc = "scan" /\ paste.shifts >= 2

\* C5: left-to-right, one block on the workspace at (x, y), a block without
\* descendants recorded at (x, y) is pasted: one shift, the pasted block
\* lands on (x + S, y + 2S) and is selected.
C5_OneShift ==
    (PasteDone /\ Parsable /\ ~RTL /\ paste.root = 2 /\ paste.nDesc = 0
       /\ blocks[1].pos = <<paste.recX[1], paste.recY[1]>>) =>
        /\ paste.shifts = 1
        /\ blocks[2].pos = <<paste.recX[1] + SNAP_RADIUS,
                             paste.recY[1] + 2 * SNAP_RADIUS>>
        /\ selected = 2

\* C5 where the shifted position is not within 1 unit of the position the
\* pasted block itself has during the scan.
OneShiftAwayFromDefault ==
    (PasteDone /\ Parsable /\ ~RTL /\ paste.root = 2 /\ paste.nDesc = 0
       /\ blocks[1].pos = <<paste.recX[1], paste.recY[1]>>
       /\ ~Near(<<paste.recX[1] + SNAP_RADIUS,
                  paste.recY[1] + 2 * SNAP_RADIUS>>, DefaultXY)) =>
        /\ paste.shifts = 1
        /\ blocks[2].pos = <<paste.recX[1] + SNAP_RADIUS,
                             paste.recY[1] + 2 * SNAP_RADIUS>>
        /\ selected = 2

\* C6: the first candidate is the parsed position, x negated exactly under
\* right-to-left, y as recorded; it is the candidate until the first shift.
C6_MirrorX ==
    (paste.phase \in {"scan", "done"} /\ Parsable) =>
        /\ paste.init[1] = (IF RTL THEN 0 - paste.recX[1] ELSE paste.recX[1])
        /\ paste.init[2] = paste.recY[1]
        /\ paste.shifts = 0 =>
              (paste.blockX = paste.init[1] /\ paste.blockY = paste.init[2])

\* Right-to-left, x recorded as 1: the scan starts from x = -1.
C6_Witness ==
    /\ RTL
    /\ pc = "scan"
    /\ paste.idx = 1
    /\ paste.shifts = 0
    /\ paste.recX = Some(1)
    /\ paste.blockX = 0 - 1

\* C7: the collision loop ends: a paste that has entered the loop returns.
C7_LoopTerminates == (pc = "scan") ~> (pc = "idle" /\ PasteDone)

\* A paste has returned after three passes of the do loop at least.
C7_Witness == PasteDone /\ Parsable /\ paste.shifts >= 2 /\ paste.root = 2

\* C8: paste returns at once exactly when the pasted subtree (root and
\* descendants) is larger than the remaining capacity; then no block is
\* added, the selection stays and nothing is thrown.  A subtree that just
\* fits is pasted whole.
C8_Capacity ==
    [][/\ (pc = "idle" /\ paste'.phase = "rejected") =>
            /\ paste'.nDesc + 1 > maxBlocks - Len(blocks)
            /\ blocks' = blocks
            /\ selected' = selected
            /\ ~ret'.threw
       /\ (pc = "idle" /\ paste'.phase \in {"scan", "done"}
             /\ Len(blocks') > Len(blocks)) =>
            /\ paste'.nDesc + 1 <= maxBlocks - Len(blocks)
            /\ Len(blocks') = Len(blocks) + 1 + paste'.nDesc]_vars

\* A paste one block over the capacity was dropped while a block was
\* selected.
C8_Witness ==
    /\ paste.phase = "rejected"
    /\ selected # 0
    /\ paste.nDesc + 1 = maxBlocks - Len(blocks) + 1

\* A subtree that exactly fills the remaining capacity has been pasted.
ExactFitPasted ==
    PasteDone /\ paste.nDesc = 1 /\ Len(blocks) = maxBlocks

\* C17: only other blocks collide with a pasted block: a block without
\* descendants pasted with a parsable position into an empty workspace is
\* not shifted and lands on the recorded position (x mirrored under RTL).
C17_NoSelfCollision ==
    (PasteDone /\ Parsable /\ paste.root = 1 /\ paste.nDesc = 0) =>
        /\ paste.shifts = 0
        /\ blocks[1].pos = <<IF RTL THEN 0 - paste.recX[1] ELSE paste.recX[1],
                             paste.recY[1]>>

\* C17 for recorded positions more than 1 unit from the position the pasted
\* block has during the scan.
NoShiftAwayFromDefault ==
    (PasteDone /\ Parsable /\ paste.root = 1 /\ paste.nDesc = 0
       /\ ~Near(paste.init, DefaultXY)) =>
        /\ paste.shifts = 0
        /\ blocks[1].pos = paste.init

(***************************************************************************)
(* render.                                                                 *)
(***************************************************************************)
\* block.getChildren() of the block at index b.
GetChildren(bs, b) == ChildrenFrom(bs, b, 1)

\* The render loop without its test: every block is rendered.
RendersEveryBlock(bs, b) == TRUE

\* if (!block.getChildren().length): the block is rendered by render().
RendersBlock(bs, b) == Len(GetChildren(bs, b)) = 0

RECURSIVE RenderLoop(_, _, _)
\* for (var x = 0, block; block = renderList[x]; x++): the blocks
\* block.render() is called on, in order.
RenderLoop(bs, renderList, x) ==
    IF x > Len(renderList) THEN <<>>
    ELSE (IF RendersBlock(bs, renderList[x]) THEN <<renderList[x]>>
          ELSE <<>>)
         \o RenderLoop(bs, renderList, x + 1)

\* render(): var renderList = this.getAllBlocks(), then the loop.
Render ==
    /\ pc = "idle"
    /\ renderCalls' = RenderLoop(blocks, GetAllBlocks(blocks), 1)
    /\ ret' = Ret("render", FALSE, FALSE, <<0, 0>>)
    /\ UNCHANGED <<surfaceVars, RTL, SNAP_RADIUS, pasteVars, traceVars,
                   audioVars>>

\* A left-to-right workspace with a surface; its blocks come from addTopBlock
\* and paste.
RenderInit ==
    /\ PasteInit
    /\ ~RTL
    /\ SNAP_RADIUS = 1

RenderNext ==
    \/ AddTopBlock
    \/ SelectBlock
    \/ PasteBegin
    \/ PasteScan
    \/ PasteRescan
    \/ PasteFinish
    \/ Render

RenderSpec == RenderInit /\ [][RenderNext]_vars

\* How often block.render() was called on block b by the last render().
RenderCount(b) == Cardinality({i \in 1..Len(renderCalls) : renderCalls[i] = b})

HasChild(b) == \E j \in 1..Len(blocks) : blocks[j].parent = b

\* C16: when render() returns it has called block.render() once on every
\* block of the workspace without children and never on a block that has a
\* child.
C16_RenderLeavesOnly ==
    (ret.op = "render" /\ pc = "idle") =>
        \A b \in 1..Len(blocks) :
            RenderCount(b) = (IF HasChild(b) THEN 0 ELSE 1)

\* render() has run on a workspace with a top block and a pasted block A
\* with child B: B and the top block were rendered, A was not.
C16_Witness ==
    /\ ret.op = "render"
    /\ Len(blocks) = 3
    /\ HasChild(2)
    /\ blocks[3].parent = 2
    /\ RenderCount(2) = 0
    /\ RenderCount(3) = 1
    /\ RenderCount(1) = 1

(***************************************************************************)
(* The trace mode: traceOn and highlightBlock.                             *)
(***************************************************************************)
\* Values of Blockly.dragMode_: 0 no drag, 1 sticky, 2 free drag.
DragModes == 0..2

\* What Blockly.bindEvent_ returns for the listener of traceOn.
BoundListener == Some("blocklySelectChange")

\* The body of traceOn(armed): the new this.traceOn_ and this.traceWrapper_.
\* A bound listener is unbound first; armed binds a new one.
TraceOnBody(armed) == <<armed, IF armed THEN BoundListener ELSE NULL>>

\* highlightBlock without its this.traceOn(false) before the selection.
TraceKeptAroundSelect(on, wrapper) == <<on, wrapper>>

\* this.traceOn(false) before the selection change in highlightBlock.
TraceOffAroundSelect(on, wrapper) == TraceOnBody(FALSE)

\* this.getBlockById(id): the block, 0 when no block has the id.
GetBlockById(bs, id) == IF id \in 1..Len(bs) THEN id ELSE 0

\* The ids highlightBlock is called with: 0 for null, the id of a block, or
\* an id no block has.
HighlightIds == 0..(Len(blocks) + 1)

\* traceOn(armed), called by the application.
TraceOn ==
    /\ pc = "idle"
    /\ \E armed \in BOOLEAN :
         /\ traceOn_' = TraceOnBody(armed)[1]
         /\ traceWrapper_' = TraceOnBody(armed)[2]
         /\ callerTrace' = IF armed THEN "on" ELSE "off"
         /\ userSelected' = IF armed THEN FALSE ELSE userSelected
    /\ ret' = Ret("traceOn", FALSE, FALSE, <<0, 0>>)
    /\ UNCHANGED <<surfaceVars, RTL, SNAP_RADIUS, pasteVars, renderCalls,
                   timers, dragMode_, audioVars>>

\* highlightBlock(id).  ret.result tells whether the call went as far as the
\* selection change and the setTimeout.
HighlightCall(id) ==
    LET drag  == traceOn_ /\ dragMode_ # 0
        t1    == IF drag THEN TraceOnBody(FALSE)
                 ELSE <<traceOn_, traceWrapper_>>
        block == GetBlockById(blocks, id)
    IN  IF ~t1[1] \/ (id # 0 /\ block = 0)
        THEN /\ traceOn_' = t1[1]
             /\ traceWrapper_' = t1[2]
             /\ ret' = [op |-> "highlightBlock", threw |-> FALSE,
                        result |-> FALSE, xy |-> <<0, 0>>, id |-> id]
             /\ UNCHANGED <<selected, timers>>
        ELSE LET t2    == TraceOffAroundSelect(t1[1], t1[2])
                 fired == block # 0 \/ selected # 0
             IN  /\ selected' = block
                 /\ traceOn_' = IF fired THEN FireSelectChange(t2[2], t2[1])
                                ELSE t2[1]
                 /\ traceWrapper_' = t2[2]
                 /\ timers' = timers + 1
                 /\ ret' = [op |-> "highlightBlock", threw |-> FALSE,
                            result |-> TRUE, xy |-> <<0, 0>>, id |-> id]

HighlightBlock ==
    /\ pc = "idle"
    /\ timers < MaxTimers
    /\ \E id \in HighlightIds : HighlightCall(id)
    /\ UNCHANGED <<surfaceVars, RTL, SNAP_RADIUS, blocks, pc, paste, pastes,
                   renderCalls, dragMode_, callerTrace, userSelected,
                   audioVars>>

\* The callback of setTimeout(function() {thisWorkspace.traceOn(true);}, 1).
TimerFire ==
    /\ pc = "idle"
    /\ timers > 0
    /\ timers' = timers - 1
    /\ traceOn_' = TraceOnBody(TRUE)[1]
    /\ traceWrapper_' = TraceOnBody(TRUE)[2]
    /\ ret' = Ret("timer", FALSE, FALSE, <<0, 0>>)
    /\ UNCHANGED <<surfaceVars, RTL, SNAP_RADIUS, pasteVars, renderCalls,
                   dragMode_, callerTrace, userSelected, audioVars>>

\* A drag starts, changes its mode or ends.
SetDragMode ==
    /\ pc = "idle"
    /\ \E m \in DragModes : m # dragMode_ /\ dragMode_' = m
    /\ ret' = Ret("drag", FALSE, FALSE, <<0, 0>>)
    /\ UNCHANGED <<surfaceVars, RTL, SNAP_RADIUS, pasteVars, renderCalls,
                   traceOn_, traceWrapper_, timers, callerTrace,
                   userSelected, audioVars>>

\* A left-to-right workspace with a surface and two top blocks.
TraceInit ==
    /\ SurfaceBuilt
    /\ blocks = <<[pos |-> <<0, 0>>, parent |-> 0],
                  [pos |-> <<1, 2>>, parent |-> 0]>>
    /\ selected = 0
    /\ pc = "idle"
    /\ paste = NoPaste
    /\ pastes = 0
    /\ ret = NoRet
    /\ renderCalls = <<>>
    /\ InitTrace
    /\ InitNoSounds
    /\ RTL = FALSE
    /\ SNAP_RADIUS = 1

TraceNext ==
    \/ TraceOn
    \/ HighlightBlock
    \/ TimerFire
    \/ SelectBlock
    \/ SetDragMode

TraceSpec == TraceInit /\ [][TraceNext]_vars

\* The event loop runs every callback setTimeout has scheduled.
TraceFairSpec == TraceSpec /\ WF_vars(TimerFire)

(***************************************************************************)
(* Claims about the trace mode.                                            *)
(***************************************************************************)
\* C12: once the application has called traceOn(true), a selection the user
\* makes turns the trace mode off until the application calls traceOn(true)
\* again, and no highlightBlock in between changes the selection.
C12_YieldsToUser ==
    (callerTrace = "on" /\ userSelected) =>
        /\ ~traceOn_
        /\ ret.op = "highlightBlock" => ~ret.result

\* The part of C12 the code keeps: a selection the user makes while the
\* listener is bound leaves the trace mode off.
UserSelectWhileBoundTurnsOff ==
    [][(ret'.op = "select" /\ traceWrapper_ # NULL) => ~traceOn_']_vars

\* C13: with the trace mode on, no drag and the id of a block,
\* highlightBlock unbinds the listener, selects the block and schedules one
\* callback; the callback leaves the trace mode on and the listener bound,
\* and every scheduled callback runs.  With the trace mode off,
\* highlightBlock changes no selection and schedules nothing.
C13_HighlightRearms ==
    /\ [][/\ (ret'.op = "highlightBlock" /\ traceOn_ /\ dragMode_ = 0
                /\ ret'.id \in 1..Len(blocks)) =>
               /\ selected' = ret'.id
               /\ traceWrapper_' = NULL
               /\ timers' = timers + 1
          /\ (ret'.op = "highlightBlock" /\ ~traceOn_) =>
               /\ selected' = selected
               /\ timers' = timers
               /\ ~traceOn_'
          /\ ret'.op = "timer" =>
               /\ timers' = timers - 1
               /\ traceOn_'
               /\ traceWrapper_' # NULL]_vars
    /\ (timers > 0) ~> (traceOn_ /\ traceWrapper_ # NULL)

\* A highlight has selected block 2 while block 1 was selected, and its
\* callback has run: the trace mode is on again, the listener bound.
C13_Witness ==
    /\ ret.op = "timer"
    /\ selected = 2
    /\ timers = 0
    /\ traceOn_
    /\ traceWrapper_ # NULL
    /\ callerTrace = "on"
    /\ ~userSelected

\* C19: after the application's traceOn(false) the trace mode is off and no
\* listener is bound, until the application calls traceOn(true).
C19_TraceOffSticky ==
    callerTrace = "off" => (~traceOn_ /\ traceWrapper_ = NULL)

\* The part of C19 the code keeps: with no callback pending at the
\* application's traceOn(false), the trace mode stays off.
TraceOffStickyWithoutTimers ==
    [][(callerTrace' = "off" /\ ~traceOn_ /\ traceWrapper_ = NULL
          /\ ret'.op # "timer") =>
         (~traceOn_' /\ traceWrapper_' = NULL)]_vars

(***************************************************************************)
(* Sounds: loadAudio_, preloadAudio_ and playAudio.  Every workspace of a  *)
(* chain of parentWorkspace links has its own SOUNDS_: a sequence of       *)
(* entries [name, file, id, volume] in insertion order; id tells the       *)
(* Audio objects stored under one name apart (1 the first, 2 the next).    *)
(***************************************************************************)
Workspaces == 1..Len(SOUNDS_)

SoundNames == {"click", "delete"}

\* The characters of \w that occur in the filenames below.
WordChars == {"a", "b", "m", "p", "v", "w", "3"}

\* The filenames argument of loadAudio_, each filename as its characters:
\* [], [a.mp3, a.wav], [a.wav, b.wav], [a.m-3, wav, b.wav] and [wav, a.m-3].
FilenameLists ==
    {<<>>,
     <<(<<"a", ".", "m", "p", "3">>), (<<"a", ".", "w", "a", "v">>)>>,
     <<(<<"a", ".", "w", "a", "v">>), (<<"b", ".", "w", "a", "v">>)>>,
     <<(<<"a", ".", "m", "-", "3">>), (<<"w", "a", "v">>),
       (<<"b", ".", "w", "a", "v">>)>>,
     <<(<<"w", "a", "v">>), (<<"a", ".", "m", "-", "3">>)>>}

\* Browsers: whether window['Audio'] exists, the extensions
\* audioTest.canPlayType accepts and the platform goog.userAgent reports.
Browsers ==
    {[audio |-> TRUE, types |-> {<<"m", "p", "3">>, <<"w", "a", "v">>},
      agent |-> "desktop"],
     [audio |-> TRUE, types |-> {<<"w", "a", "v">>}, agent |-> "ipad"],
     [audio |-> TRUE, types |-> {}, agent |-> "android"],
     [audio |-> FALSE, types |-> {}, agent |-> "ie9"]}

\* The opt_volume argument of playAudio: undefined or a number.
Volumes == {NULL, Some("0.5")}

RECURSIVE LastDot(_, _)
\* The position of the last "." of f at or before i, 0 if there is none.
LastDot(f, i) ==
    IF i = 0 THEN 0
    ELSE IF f[i] = "." THEN i
    ELSE LastDot(f, i - 1)

\* filename.match(/\.(\w+)$/): NULL, or the extension after the last dot
\* when it is a non-empty run of word characters.
MatchExt(f) ==
    LET d == LastDot(f, Len(f))
    IN  IF d = 0 \/ d = Len(f) THEN NULL
        ELSE IF \E i \in (d + 1)..Len(f) : f[i] \notin WordChars THEN NULL
        ELSE Some(SubSeq(f, d + 1, Len(f)))

\* audioTest.canPlayType('audio/' + ext) is a non-empty string.
CanPlayType(ext) == ext \in playable

RECURSIVE FindLastSound(_, _)
\* The loop without its break: the last playable filename wins.
FindLastSound(filenames, i) ==
    IF i > Len(filenames) THEN 0
    ELSE LET rest == FindLastSound(filenames, i + 1)
             ext  == MatchExt(filenames[i])
         IN  IF rest # 0 THEN rest
             ELSE IF ext # NULL /\ CanPlayType(ext[1]) THEN i
             ELSE 0

RECURSIVE FindSound(_, _)
\* The for loop of loadAudio_ from index i: the index of the filename the
\* Audio object is created for, 0 when the loop ends without one.
FindSound(filenames, i) ==
    IF i > Len(filenames) THEN 0
    ELSE LET ext == MatchExt(filenames[i])
         IN  IF ext # NULL /\ CanPlayType(ext[1]) THEN i
             ELSE FindSound(filenames, i + 1)

\* The position of name among the keys of a SOUNDS_ object, 0 if absent.
KeyIndex(sounds, name) ==
    IF \E i \in 1..Len(sounds) : sounds[i].name = name
    THEN CHOOSE i \in 1..Len(sounds) : sounds[i].name = name
    ELSE 0

\* this.SOUNDS_[name]: NULL (undefined) or the entry.
Lookup(sounds, name) ==
    IF KeyIndex(sounds, name) = 0 THEN NULL
    ELSE Some(sounds[KeyIndex(sounds, name)])

\* this.SOUNDS_[name] = sound: an existing key keeps its place.
Store(sounds, sound) ==
    IF KeyIndex(sounds, sound.name) = 0 THEN Append(sounds, sound)
    ELSE [sounds EXCEPT ![KeyIndex(sounds, sound.name)] = sound]

\* The id of the Audio object new window['Audio'](filename) creates for
\* name: unlike the one stored under name so far.
NextId(sounds, name) ==
    IF Lookup(sounds, name) = NULL THEN 1 ELSE Lookup(sounds, name)[1].id + 1

AudioRet(op, w, name, filenames, result) ==
    [op |-> op, threw |-> FALSE, result |-> result, xy |-> <<0, 0>>,
     ws |-> w, name |-> name, filenames |-> filenames]

\* loadAudio_(filenames, name) on workspace w.
LoadAudio_ ==
    /\ pc = "idle"
    /\ loads < MaxLoads
    /\ \E w \in Workspaces, filenames \in FilenameLists, name \in SoundNames :
         LET i == IF ~audioSupported \/ Len(filenames) = 0 THEN 0
                  ELSE FindSound(filenames, 1)
         IN  /\ IF i = 0
                THEN UNCHANGED <<SOUNDS_, loads>>
                ELSE /\ SOUNDS_' =
                          [SOUNDS_ EXCEPT ![w] =
                             Store(@, [name |-> name, file |-> filenames[i],
                                       id |-> NextId(@, name),
                                       volume |-> "1"])]
                     /\ loads' = loads + 1
             /\ ret' = AudioRet("loadAudio_", w, name, filenames, i # 0)
    /\ play' = NoPlay
    /\ UNCHANGED <<surfaceVars, RTL, SNAP_RADIUS, pasteVars, renderCalls,
                   traceVars, parentWorkspace, playable, audioSupported,
                   userAgent>>

\* preloadAudio_() on workspace w: every sound is played at volume .01 and
\* paused; on an iPad or iPhone only the first one.
PreloadAudio_ ==
    /\ pc = "idle"
    /\ \E w \in Workspaces :
         LET last == IF userAgent \in {"ipad", "iphone"} THEN 1
                     ELSE Len(SOUNDS_[w])
         IN  /\ SOUNDS_' =
                  [SOUNDS_ EXCEPT ![w] =
                     [i \in 1..Len(@) |->
                        IF i <= last
                        THEN [@[i] EXCEPT !.volume = "0.01"]
                        ELSE @[i]]]
             /\ ret' = AudioRet("preloadAudio_", w, "", <<>>, FALSE)
    /\ play' = NoPlay
    /\ UNCHANGED <<surfaceVars, RTL, SNAP_RADIUS, pasteVars, renderCalls,
                   traceVars, parentWorkspace, playable, audioSupported,
                   userAgent, loads>>

\* playAudio without the else before the delegation: the parent is asked
\* whether or not the sound was found.
DelegateAlways(w, sound) == parentWorkspace[w]

\* The workspace playAudio on w calls playAudio on next, 0 for none: the
\* parent, when w has no such sound and has a parent.
DelegateTo(w, sound) == IF sound # NULL THEN 0 ELSE parentWorkspace[w]

\* ie9 || goog.userAgent.IPAD || goog.userAgent.ANDROID: the cached Audio
\* object is played itself, elsewhere a clone of it.
ReusesCached == userAgent \in {"ie9", "ipad", "android"}

\* mySound.volume = (opt_volume === undefined ? 1 : opt_volume)
PlayVolume(opt_volume) == IF opt_volume = NULL THEN "1" ELSE opt_volume[1]

\* The application calls playAudio(name, opt_volume) on workspace w.
PlayAudio ==
    /\ pc = "idle"
    /\ \E w \in Workspaces, name \in SoundNames, vol \in Volumes :
         /\ play' = [phase |-> "call", name |-> name, volume |-> vol,
                     from |-> w, at |-> w, visited |-> <<>>,
                     played |-> <<>>]
         /\ ret' = AudioRet("playAudio", w, name, <<>>, FALSE)
    /\ pc' = "play"
    /\ UNCHANGED <<surfaceVars, RTL, SNAP_RADIUS, blocks, selected, paste,
                   pastes, renderCalls, traceVars, SOUNDS_, parentWorkspace,
                   playable, audioSupported, userAgent, loads>>

\* The body of playAudio on the workspace play.at.
PlayStep ==
    /\ pc = "play"
    /\ LET w     == play.at
           sound == Lookup(SOUNDS_[w], play.name)
           up    == DelegateTo(w, sound)
           vol   == PlayVolume(play.volume)
       IN  /\ SOUNDS_' =
                IF sound # NULL /\ ReusesCached
                THEN [SOUNDS_ EXCEPT ![w] =
                        Store(@, [sound[1] EXCEPT !.volume = vol])]
                ELSE SOUNDS_
           /\ play' = [play EXCEPT
                         !.visited = Append(@, w),
                         !.played = IF sound # NULL
                                    THEN Append(@, [ws |-> w,
                                                    id |-> sound[1].id,
                                                    clone |-> ~ReusesCached,
                                                    volume |-> vol])
                                    ELSE @,
                         !.at = IF up # 0 THEN up ELSE @,
                         !.phase = IF up # 0 THEN "call" ELSE "done"]
           /\ pc' = IF up # 0 THEN "play" ELSE "idle"
           /\ ret' = AudioRet("playAudio", play.from, play.name, <<>>,
                              sound # NULL)
    /\ UNCHANGED <<surfaceVars, RTL, SNAP_RADIUS, blocks, selected, paste,
                   pastes, renderCalls, traceVars, parentWorkspace, playable,
                   audioSupported, userAgent, loads>>

\* A workspace and a child workspace of it (as a flyout's workspace is),
\* with empty SOUNDS_, in one browser.
AudioInit ==
    /\ SurfaceBuilt
    /\ InitBlocks
    /\ renderCalls = <<>>
    /\ InitTrace
    /\ RTL = FALSE
    /\ SNAP_RADIUS = 1
    /\ SOUNDS_ = <<(<<>>), (<<>>)>>
    /\ parentWorkspace = <<0, 1>>
    /\ \E b \in Browsers :
         /\ playable = b.types
         /\ audioSupported = b.audio
         /\ userAgent = b.agent
    /\ loads = 0
    /\ play = NoPlay

AudioNext ==
    \/ LoadAudio_
    \/ PreloadAudio_
    \/ PlayAudio
    \/ PlayStep

AudioSpec == AudioInit /\ [][AudioNext]_vars

\* The entry loadAudio_(['a.wav'], name) leaves where wav is playable.
Registered(name) ==
    [name |-> name, file |-> <<"a", ".", "w", "a", "v">>, id |-> 1,
     volume |-> "1"]

\* What SOUNDS_ of a workspace may hold when playAudio is called.
RegisteredSounds ==
    {<<>>, <<Registered("click")>>, <<Registered("delete")>>,
     <<Registered("click"), Registered("delete")>>}

RECURSIVE CountSounds(_, _)
\* The Audio objects stored in the SOUNDS_ of the workspaces 1..w.
CountSounds(sounds, w) ==
    IF w = 0 THEN 0 ELSE Len(sounds[w]) + CountSounds(sounds, w - 1)

\* A chain of MaxChain workspaces, each the options.parentWorkspace of the
\* next, with their sounds registered, in a browser that plays wav.
PlayInit ==
    /\ SurfaceBuilt
    /\ InitBlocks
    /\ renderCalls = <<>>
    /\ InitTrace
    /\ RTL = FALSE
    /\ SNAP_RADIUS = 1
    /\ SOUNDS_ \in [1..MaxChain -> RegisteredSounds]
    /\ parentWorkspace = [w \in 1..MaxChain |-> w - 1]
    /\ \E b \in Browsers :
         /\ b.audio
         /\ <<"w", "a", "v">> \in b.types
         /\ playable = b.types
         /\ audioSupported = b.audio
         /\ userAgent = b.agent
    /\ loads = CountSounds(SOUNDS_, MaxChain)
    /\ play = NoPlay

PlayNext ==
    \/ PlayAudio
    \/ PlayStep

PlaySpec == PlayInit /\ [][PlayNext]_vars

\* playAudio runs to completion: every nested call is made and returns.
PlayFairSpec == PlaySpec /\ WF_vars(PlayStep)

(***************************************************************************)
(* Claims about the sounds.                                                *)
(***************************************************************************)
\* The browser declares the extension of filename f playable: f ends in a
\* dot followed by word characters only, and that extension is accepted.
DeclaredPlayable(f) ==
    /\ audioSupported
    /\ \E d \in 1..(Len(f) - 1) :
         /\ f[d] = "."
         /\ \A j \in (d + 1)..Len(f) : f[j] \in WordChars
         /\ SubSeq(f, d + 1, Len(f)) \in playable

\* C14: loadAudio_(filenames, name) caches for name an Audio object of the
\* first filename, in list order, whose extension is declared playable and
\* touches no other entry; with no such filename SOUNDS_ stays as it was;
\* nothing is thrown.
C14_FirstPlayableWins ==
    [][ret'.op = "loadAudio_" =>
         LET fs    == ret'.filenames
             w     == ret'.ws
             cands == {i \in 1..Len(fs) : DeclaredPlayable(fs[i])}
         IN  /\ ~ret'.threw
             /\ \A v \in Workspaces \ {w} : SOUNDS_'[v] = SOUNDS_[v]
             /\ \A n \in SoundNames \ {ret'.name} :
                  Lookup(SOUNDS_'[w], n) = Lookup(SOUNDS_[w], n)
             /\ IF cands = {}
                THEN SOUNDS_'[w] = SOUNDS_[w]
                ELSE LET first == CHOOSE i \in cands :
                                     \A j \in cands : i <= j
                         sound == Lookup(SOUNDS_'[w], ret'.name)
                     IN  /\ sound # NULL
                         /\ sound[1].file = fs[first]]_vars

\* [a.mp3, a.wav] was registered where only wav is playable: the Audio
\* object cached for the name is the one of a.wav.
C14_Witness ==
    /\ ret.op = "loadAudio_"
    /\ ret.filenames = <<(<<"a", ".", "m", "p", "3">>),
                         (<<"a", ".", "w", "a", "v">>)>>
    /\ playable = {<<"w", "a", "v">>}
    /\ Lookup(SOUNDS_[ret.ws], ret.name) # NULL
    /\ Lookup(SOUNDS_[ret.ws], ret.name)[1].file = <<"a", ".", "w", "a", "v">>

\* C15: playAudio(name) called on a workspace asks that workspace, then its
\* parent, and so on, each once, up to the first that has the name, plays
\* the sound there once and asks nobody further; if no workspace of the
\* chain has the name nothing is played; nothing is thrown, and the call
\* returns.
C15_DelegatesUpChain ==
    /\ [](play.phase = "done" =>
            LET v == play.visited
                n == Len(v)
            IN  /\ ~ret.threw
                /\ n >= 1
                /\ v[1] = play.from
                /\ \A i \in 1..(n - 1) :
                     /\ Lookup(SOUNDS_[v[i]], play.name) = NULL
                     /\ parentWorkspace[v[i]] # 0
                     /\ v[i + 1] = parentWorkspace[v[i]]
                /\ \A i, j \in 1..n : v[i] = v[j] => i = j
                /\ IF Lookup(SOUNDS_[v[n]], play.name) # NULL
                   THEN /\ Len(play.played) = 1
                        /\ play.played[1].ws = v[n]
                        /\ play.played[1].id =
                             Lookup(SOUNDS_[v[n]], play.name)[1].id
                   ELSE /\ parentWorkspace[v[n]] = 0
                        /\ play.played = <<>>)
    /\ (pc = "play") ~> (pc = "idle" /\ play.phase = "done")

\* playAudio called on the last workspace of the chain went up two levels
\* and played the sound of the first workspace.
C15_Witness ==
    /\ play.phase = "done"
    /\ play.from = 3
    /\ play.visited = <<3, 2, 1>>
    /\ Len(play.played) = 1
    /\ play.played[1].ws = 1

\* playAudio called on the last workspace of the chain went up to the first
\* and found the name nowhere: nothing was played.
PlayedNothing ==
    /\ play.phase = "done"
    /\ play.from = 3
    /\ play.visited = <<3, 2, 1>>
    /\ play.played = <<>>
    /\ \A w \in Workspaces : SOUNDS_[w] # <<>>

\* C18: a name has at most one cached Audio object, and once a name has one
\* no loadAudio_, preloadAudio_ or playAudio puts another in its place.
C18_CacheWrittenOnce ==
    /\ [](\A w \in Workspaces :
            \A i, j \in 1..Len(SOUNDS_[w]) :
               SOUNDS_[w][i].name = SOUNDS_[w][j].name => i = j)
    /\ [][\A w \in Workspaces, n \in SoundNames :
            Lookup(SOUNDS_[w], n) # NULL =>
               /\ Lookup(SOUNDS_'[w], n) # NULL
               /\ Lookup(SOUNDS_'[w], n)[1].id = Lookup(SOUNDS_[w], n)[1].id]_vars

\* The part of C18 the code keeps: one Audio object per name at a time, and
\* preloadAudio_ and playAudio replace none.
PreloadAndPlayKeepHandles ==
    /\ [](\A w \in Workspaces :
            \A i, j \in 1..Len(SOUNDS_[w]) :
               SOUNDS_[w][i].name = SOUNDS_[w][j].name => i = j)
    /\ [][ret'.op # "loadAudio_" =>
            \A w \in Workspaces, n \in SoundNames :
               Lookup(SOUNDS_[w], n) # NULL =>
                  /\ Lookup(SOUNDS_'[w], n) # NULL
                  /\ Lookup(SOUNDS_'[w], n)[1].id =
                       Lookup(SOUNDS_[w], n)[1].id]_vars

=============================================================================
